---- MODULE Spec2Model ----
(***************************************************************************)
(* RAG chatbot backend: the chat pipeline of backend/app/main.py            *)
(* (query_generate -> answer_generate -> MessageLog commit), the MCP        *)
(* resource client with its local-file fallback                             *)
(* (backend/app/services/mcp_client.py), the LLM service                    *)
(* (backend/app/services/llm_service.py) and the message listing.           *)
(*                                                                          *)
(* Text is a sequence of atoms: one-character strings, or a longer string   *)
(* standing for a fixed piece of text.  A prompt template is a sequence of  *)
(* atoms in which a field name stands for the replacement field {name}.     *)
(***************************************************************************)
EXTENDS Integers, Sequences, FiniteSets, TLC

\* ------------------------------------------------------------------ bounds
\* readings the wall clock (datetime.utcnow) can give
MaxClock == 2
\* rows of message_logs a listing is run against
MaxStore == 3

\* the chat requests in flight at the same time
Reqs == {"r1", "r2"}

Min(a, b) == IF a < b THEN a ELSE b
Max(a, b) == IF a < b THEN b ELSE a

\* ------------------------------------------------------------- text (str)
Space == " "

RECURSIVE LStrip(_)
LStrip(s) == IF s # <<>> /\ Head(s) = Space THEN LStrip(Tail(s)) ELSE s

RECURSIVE RStrip(_)
RStrip(s) ==
    IF s # <<>> /\ s[Len(s)] = Space THEN RStrip(SubSeq(s, 1, Len(s) - 1)) ELSE s

\* str.strip()
Strip(s) == RStrip(LStrip(s))

\* ------------------------------------------------------ results of a call
\* a call returns a value (ok) or raises an exception whose str() is err
Ok(v) == [ok |-> TRUE, val |-> v, err |-> <<>>]
Raise(e) == [ok |-> FALSE, val |-> <<>>, err |-> e]

\* ------------------------------------------------- resources (environment)
\* what the MCP server and the local files can hold; a field name inside a
\* template is the replacement field {name} of str.format
FaqTexts == {<<"f">>, <<"g">>}
QueryTemplates ==
    {<<"conversation_history", "?", "user_query">>, <<"user_query", "faq_content">>}
AnswerTemplates ==
    {<<"faq_content", "?", "refined_query">>, <<"user_query">>}

Handles == {"faq", "query_generate", "answer_generate"}

Contents(h) ==
    CASE h = "faq" -> FaqTexts
      [] h = "query_generate" -> QueryTemplates
      [] h = "answer_generate" -> AnswerTemplates

\* what one GET to the MCP server can come back with:
\*   connect_error  client.get raises: network error
\*   timeout        client.get raises: no answer within the client's timeout
\*   http_error     raise_for_status raises (non-success status)
\*   not_json       response.json() raises (body is no JSON)
\*   not_object     the JSON body is no object: result.get raises
\*   no_content     success status, JSON object without the key "content"
\*   content        success status, JSON object with "content": text
RemoteFailures == {"connect_error", "timeout", "http_error", "not_json", "not_object"}

Replies(h) ==
    [kind : RemoteFailures \cup {"no_content"}, content : {<<>>}]
        \cup [kind : {"content"}, content : Contents(h)]

\* what the local copy of a resource can be: a readable file (empty, or
\* holding a content), no file (mcp_path.exists() is false), or a file that
\* open()/read() fails on
Files(h) ==
    [kind : {"missing", "unreadable"}, content : {<<>>}]
        \cup [kind : {"file"}, content : Contents(h) \cup {<<>>}]

\* ------------------------------------------------------------- MCPClient
\* RemoteFetch without raise_for_status: the body of an error reply is used
RemoteFetchIgnoresStatus(reply) ==
    CASE reply.kind = "content" -> Ok(reply.content)
      [] reply.kind \in {"no_content", "http_error"} -> Ok(<<>>)
      [] OTHER -> Raise(<<reply.kind>>)

\* the try block of a get_* method: GET, raise_for_status, json, get
RemoteFetch(reply) ==
    CASE reply.kind = "content" -> Ok(reply.content)
      [] reply.kind = "no_content" -> Ok(<<>>)
      [] OTHER -> Raise(<<reply.kind>>)

\* the fallback block: exists() and, when the file exists, open and read
LocalFetch(file) ==
    CASE file.kind = "file" -> Ok(file.content)
      [] file.kind = "missing" -> Raise(<<"Could not find file">>)
      [] OTHER -> Raise(<<"OSError">>)

ResourceLabel(h) ==
    CASE h = "faq" -> "Could not get FAQ content from MCP server or local file"
      [] h = "query_generate" ->
            "Could not get query prompt from MCP server or local file"
      [] h = "answer_generate" ->
            "Could not get answer prompt from MCP server or local file"

\* FetchError that reports the fallback's exception alone
FetchErrorLocalOnly(h, e, fallback_error) == <<ResourceLabel(h)>> \o fallback_error

\* the exception raised when the fallback fails too: f"...: {e}, {fallback_error}"
FetchError(h, e, fallback_error) == <<ResourceLabel(h)>> \o e \o fallback_error

\* get_faq_content / get_query_prompt / get_answer_prompt as one call
FetchResource(h, reply, file) ==
    LET remote == RemoteFetch(reply) IN
    IF remote.ok THEN remote
    ELSE LET fallback == LocalFetch(file) IN
         IF fallback.ok THEN fallback
         ELSE Raise(FetchError(h, remote.err, fallback.err))

\* the replies the MCP server gives while it is up (any) and while it is
\* down (no GET gets through)
ServerReplies(h, up) ==
    IF up THEN Replies(h)
    ELSE {x \in Replies(h) : x.kind \in {"connect_error", "timeout"}}

\* the outcomes of a fetch of h that a chat request is run against: every
\* content, a reply without content, one failing GET, one failing local read
Fetches(h, up) ==
    {FetchResource(h, reply, file) :
        reply \in {x \in ServerReplies(h, up) :
                      x.kind \in {"content", "no_content", "timeout"}},
        file \in {x \in Files(h) : x.kind \in {"file", "missing"}}}

\* ------------------------------------------------------------ LLMService
Roles == {"user", "assistant", "system"}

Histories ==
    {<<>>,
     <<[role |-> "user", content |-> <<"h">>]>>,
     <<[role |-> "system", content |-> <<"s">>],
       [role |-> "user", content |-> <<"h">>]>>}

\* replies of llm.ainvoke: a message with content, or an exception
LLMContents == {<<" ">>, <<" ", "x", " ">>}
LLMReplies ==
    [kind : {"message"}, content : LLMContents]
        \cup [kind : {"error"}, content : {<<>>}]

FieldNames ==
    {"conversation_history", "user_query", "faq_content", "refined_query"}

RECURSIVE JoinLines(_)
JoinLines(lines) ==
    IF lines = <<>> THEN <<>>
    ELSE IF Len(lines) = 1 THEN Head(lines)
    ELSE Head(lines) \o <<"\n">> \o JoinLines(Tail(lines))

\* _format_conversation_history that lists the newest turn first
FormatHistoryNewestFirst(history) ==
    IF history = <<>> THEN <<"No previous conversation.">>
    ELSE JoinLines([i \in 1..Len(history) |->
            <<(IF history[Len(history) + 1 - i].role = "user"
               THEN "User" ELSE "Assistant"), ": ">>
                \o history[Len(history) + 1 - i].content])

_format_conversation_history(history) ==
    IF history = <<>> THEN <<"No previous conversation.">>
    ELSE JoinLines([i \in 1..Len(history) |->
            <<(IF history[i].role = "user" THEN "User" ELSE "Assistant"), ": ">>
                \o history[i].content])

\* Format that leaves a replacement field it has no value for as it stands
RECURSIVE FormatLenient(_, _)
FormatLenient(template, kwargs) ==
    IF template = <<>> THEN Ok(<<>>)
    ELSE LET tok == Head(template)
             rest == FormatLenient(Tail(template), kwargs)
         IN  IF tok \in FieldNames /\ tok \in DOMAIN kwargs
                 THEN Ok(kwargs[tok] \o rest.val)
             ELSE Ok(<<tok>> \o rest.val)

\* str.format(**kwargs): kwargs is a record; a replacement field whose name
\* is no key of kwargs raises KeyError
RECURSIVE Format(_, _)
Format(template, kwargs) ==
    IF template = <<>> THEN Ok(<<>>)
    ELSE LET tok == Head(template)
             rest == Format(Tail(template), kwargs)
         IN  IF tok \in FieldNames /\ tok \notin DOMAIN kwargs
                 THEN Raise(<<"KeyError", tok>>)
             ELSE IF ~rest.ok THEN rest
             ELSE IF tok \in FieldNames THEN Ok(kwargs[tok] \o rest.val)
             ELSE Ok(<<tok>> \o rest.val)

\* llm.ainvoke(messages) and response.content.strip()
Invoke(prompt, llm) ==
    IF ~prompt.ok THEN prompt
    ELSE IF llm.kind = "error" THEN Raise(<<"LLM error">>)
    ELSE Ok(Strip(llm.content))

\* the messages llm.ainvoke is called with: the prompt, when there is one
Invoked(prompt) == IF prompt.ok THEN <<prompt.val>> ELSE <<>>

\* the prompt of generate_query: prompt_template.format(...)
RenderQuery(user_query, conversation_history, prompt_template) ==
    LET history_text == _format_conversation_history(conversation_history)
    IN  Format(prompt_template,
               [conversation_history |-> history_text,
                user_query |-> user_query])

\* the prompt of generate_answer: prompt_template.format(...)
RenderAnswer(refined_query, faq_content, prompt_template) ==
    Format(prompt_template,
           [faq_content |-> faq_content, refined_query |-> refined_query])

generate_query(user_query, conversation_history, prompt_template, llm) ==
    Invoke(RenderQuery(user_query, conversation_history, prompt_template), llm)

generate_answer(refined_query, faq_content, prompt_template, llm) ==
    Invoke(RenderAnswer(refined_query, faq_content, prompt_template), llm)

\* ------------------------------------------------------- main.py endpoints
\* str() of an HTTPException(status_code=500, detail=...)
HTTPExceptionStr(detail) == <<"500: ">> \o detail

\* POST /query_generate; fetch is what mcp_client.get_query_prompt() gave
query_generate(user_query, conversation_history, fetch, llm) ==
    IF ~fetch.ok THEN Raise(<<"Query generation failed: ">> \o fetch.err)
    ELSE LET g == generate_query(user_query, conversation_history, fetch.val, llm)
         IN  IF g.ok THEN Ok([refined_query |-> g.val, original_query |-> user_query])
             ELSE Raise(<<"Query generation failed: ">> \o g.err)

\* POST /answer_generate; faq and prompt are what get_faq_content() and
\* get_answer_prompt() gave (the second is not called when the first raises)
answer_generate(refined_query, original_query, faq, prompt, llm) ==
    IF ~faq.ok THEN Raise(<<"Answer generation failed: ">> \o faq.err)
    ELSE IF ~prompt.ok THEN Raise(<<"Answer generation failed: ">> \o prompt.err)
    ELSE LET g == generate_answer(refined_query, faq.val, prompt.val, llm)
         IN  IF g.ok THEN Ok([answer |-> g.val, refined_query |-> refined_query,
                              original_query |-> original_query])
             ELSE Raise(<<"Answer generation failed: ">> \o g.err)

\* ------------------------------------------------------------------ state
UserQueries == {<<>>, <<" ", "q">>}

\* the values uuid.uuid4() gives, in the order they are drawn (no two alike)
UuidNames == <<"uuid-1", "uuid-2", "uuid-3", "uuid-4">>

VARIABLES
    pc,        \* pc[r]: where chat request r stands
    local,     \* local[r]: the local variables of chat for request r
    exc,       \* exc[r]: str(e) of the exception chat's except caught (<<>>: none)
    response,  \* response[r]: what request r was answered
    pending,   \* pending[r]: objects added to r's session and not committed
    issued,    \* issued[r]: the uuid4 drawn for r ("" before)
    store,     \* committed rows of message_logs, in commit order
    clock,     \* the last reading of datetime.utcnow()
    server,    \* whether the MCP server is up
    reader,    \* the last GET /messages or /messages/count and its answer
    mcp,       \* the MCPClient call under way: its steps and its result
    stage,     \* the POST /query_generate and /answer_generate calls made
    calls      \* the calls one chat request has made, step by step

chatVars == <<pc, local, exc, response, pending, issued, clock, server>>
vars == <<pc, local, exc, response, pending, issued, store, clock, server,
          reader, mcp, stage, calls>>

NoLocal ==
    [user_query |-> <<>>, refined_query |-> <<>>, answer |-> <<>>,
     conversation_id |-> "", timestamp |-> 0]

NoResponse ==
    [status |-> 0, answer |-> <<>>, refined_query |-> <<>>,
     original_query |-> <<>>, conversation_id |-> "", detail |-> <<>>]

ChatResponse(answer, refined_query, original_query, conversation_id) ==
    [status |-> 200, answer |-> answer, refined_query |-> refined_query,
     original_query |-> original_query, conversation_id |-> conversation_id,
     detail |-> <<>>]

ErrorResponse(detail) == [NoResponse EXCEPT !.status = 500, !.detail = detail]

\* MessageLog that stores the query with its outer blanks removed
MessageLogStripped(user_query, refined_query, answer, conversation_id, timestamp) ==
    [user_query |-> Strip(user_query), refined_query |-> refined_query,
     answer |-> answer, conversation_id |-> conversation_id,
     timestamp |-> timestamp]

\* MessageLog(...): the row built from chat's locals
MessageLog(user_query, refined_query, answer, conversation_id, timestamp) ==
    [user_query |-> user_query, refined_query |-> refined_query,
     answer |-> answer, conversation_id |-> conversation_id,
     timestamp |-> timestamp]

\* the row as committed: the id column is filled by the database
Committed(message_log, id) ==
    [id |-> id, user_query |-> message_log.user_query,
     refined_query |-> message_log.refined_query, answer |-> message_log.answer,
     conversation_id |-> message_log.conversation_id,
     timestamp |-> message_log.timestamp]

\* uuid4 that gives every request the same value
NextUuidReused == UuidNames[1]

\* str(uuid.uuid4()): a value no earlier request was given
NextUuid == UuidNames[Cardinality({r \in Reqs : issued[r] # ""}) + 1]

NoReader ==
    [endpoint |-> "", limit |-> 0, offset |-> 0, conversation_id |-> <<>>,
     status |-> 0, messages |-> <<>>, count |-> 0]

NoReply == [kind |-> "", content |-> <<>>]

\* what a call of health_check gave: a bool returned, or an exception
NoHealth == [raised |-> FALSE, value |-> FALSE, err |-> <<>>]

\* the fetch call before the current one: which resource, and what it gave
NoPrev == [handle |-> "", result |-> Raise(<<>>)]

NoCall ==
    [pc |-> "idle", handle |-> "", reply |-> NoReply, file |-> NoReply,
     e |-> <<>>, gets |-> 0, reads |-> 0, result |-> Raise(<<>>),
     health |-> NoHealth, prev |-> NoPrev]

InitChat ==
    /\ pc = [r \in Reqs |-> "idle"]
    /\ local = [r \in Reqs |-> NoLocal]
    /\ exc = [r \in Reqs |-> <<>>]
    /\ response = [r \in Reqs |-> NoResponse]
    /\ pending = [r \in Reqs |-> <<>>]
    /\ issued = [r \in Reqs |-> ""]
    /\ clock = 1
    /\ server \in BOOLEAN

\* one call of POST /query_generate or POST /answer_generate: its answer and
\* the prompts it handed to the model
NoStageCall ==
    [called |-> FALSE, status |-> 0, refined_query |-> <<>>,
     original_query |-> <<>>, answer |-> <<>>, detail |-> <<>>, sent |-> <<>>]

\* the request body, the outcomes of the three fetches and the replies of the
\* model that the stage endpoints and a chat request are run against, and
\* the calls of the two stage endpoints
NoStage ==
    [user_query |-> <<>>, history |-> <<>>, conversation_id |-> <<>>,
     refined_query |-> <<>>,
     qfetch |-> Raise(<<>>), faq |-> Raise(<<>>), prompt |-> Raise(<<>>),
     llm_q |-> NoReply, llm_a |-> NoReply,
     query |-> NoStageCall, answer |-> NoStageCall]

InitReader == reader = NoReader

InitStage == stage = NoStage

\* the calls of a chat request that is followed call by call: GETs and local
\* reads per resource, model calls per stage, and the FAQ text it holds
NoCalls ==
    [gets |-> [h \in Handles |-> 0], reads |-> [h \in Handles |-> 0],
     invoked |-> [s \in {"query", "answer"} |-> 0],
     faq_done |-> FALSE, faq |-> Raise(<<>>)]

InitCalls == calls = NoCalls

InitClient == mcp = NoCall

Init ==
    /\ InitChat
    /\ store = <<>>
    /\ InitReader
    /\ InitClient
    /\ InitStage
    /\ InitCalls

\* chat enters its except block with exception e; its locals are dead there
Except(r, e) ==
    /\ pc' = [pc EXCEPT ![r] = "except"]
    /\ exc' = [exc EXCEPT ![r] = e]
    /\ local' = [local EXCEPT ![r] = NoLocal]

\* ChatRefine that also commits a row holding the refined query on its own
ChatRefineLogsQuery(r) ==
    /\ pc[r] = "idle"
    /\ \E user_query \in UserQueries, history \in Histories,
          fetch \in Fetches("query_generate", server), llm \in LLMReplies :
          LET q == query_generate(user_query, history, fetch, llm) IN
          IF q.ok
          THEN /\ pc' = [pc EXCEPT ![r] = "answering"]
               /\ local' = [local EXCEPT ![r] =
                      [NoLocal EXCEPT !.user_query = user_query,
                                      !.refined_query = q.val.refined_query]]
               /\ exc' = exc
               /\ store' = Append(store,
                      Committed(MessageLog(user_query, q.val.refined_query, <<>>,
                                           "", clock), Len(store) + 1))
          ELSE /\ Except(r, HTTPExceptionStr(q.err))
               /\ store' = store
    /\ UNCHANGED <<response, pending, issued, clock, server, reader, mcp, stage, calls>>

\* chat, step 1, for one request body, one outcome of the prompt fetch and
\* one reply of the model
ChatRefineWith(r, user_query, history, fetch, llm) ==
    LET q == query_generate(user_query, history, fetch, llm) IN
    IF q.ok
    THEN /\ pc' = [pc EXCEPT ![r] = "answering"]
         /\ local' = [local EXCEPT ![r] =
                [NoLocal EXCEPT !.user_query = user_query,
                                !.refined_query = q.val.refined_query]]
         /\ exc' = exc
    ELSE Except(r, HTTPExceptionStr(q.err))

\* chat, step 1: the request arrives and query_generate runs
ChatRefine(r) ==
    /\ pc[r] = "idle"
    /\ \E user_query \in UserQueries, history \in Histories,
          fetch \in Fetches("query_generate", server), llm \in LLMReplies :
          ChatRefineWith(r, user_query, history, fetch, llm)
    /\ UNCHANGED <<response, pending, issued, store, clock, server, reader, mcp, stage, calls>>

\* ChatAnswerWith that answers and logs the raw user query in place of the
\* refined one
ChatAnswerWithRawQuery(r, faq, prompt, llm) ==
    LET a == answer_generate(local[r].user_query, local[r].user_query,
                             faq, prompt, llm) IN
    IF a.ok
    THEN \E now \in clock..Min(clock + 1, MaxClock) :
         LET l == [local[r] EXCEPT !.answer = a.val.answer,
                                   !.refined_query = a.val.refined_query,
                                   !.conversation_id = NextUuid,
                                   !.timestamp = now]
         IN  /\ clock' = now
             /\ issued' = [issued EXCEPT ![r] = NextUuid]
             /\ local' = [local EXCEPT ![r] = l]
             /\ pending' = [pending EXCEPT ![r] =
                    <<MessageLog(l.user_query, l.refined_query, l.answer,
                                 l.conversation_id, l.timestamp)>>]
             /\ pc' = [pc EXCEPT ![r] = "commit"]
             /\ exc' = exc
    ELSE /\ Except(r, HTTPExceptionStr(a.err))
         /\ UNCHANGED <<pending, issued, clock>>

\* chat, steps 2 and 3 up to db.add: answer_generate runs and, when it
\* returns, the uuid is drawn, the clock is read and the row is added to the
\* session (no await lies between the return and db.commit)
ChatAnswerWith(r, faq, prompt, llm) ==
    LET a == answer_generate(local[r].refined_query, local[r].user_query,
                             faq, prompt, llm) IN
    IF a.ok
    THEN \E now \in clock..Min(clock + 1, MaxClock) :
         LET l == [local[r] EXCEPT !.answer = a.val.answer,
                                   !.conversation_id = NextUuid,
                                   !.timestamp = now]
         IN  /\ clock' = now
             /\ issued' = [issued EXCEPT ![r] = NextUuid]
             /\ local' = [local EXCEPT ![r] = l]
             /\ pending' = [pending EXCEPT ![r] =
                    <<MessageLog(l.user_query, l.refined_query, l.answer,
                                 l.conversation_id, l.timestamp)>>]
             /\ pc' = [pc EXCEPT ![r] = "commit"]
             /\ exc' = exc
    ELSE /\ Except(r, HTTPExceptionStr(a.err))
         /\ UNCHANGED <<pending, issued, clock>>

\* chat, steps 2 and 3 up to db.add, against every outcome of the two
\* fetches and every reply of the model
ChatAnswer(r) ==
    /\ pc[r] = "answering"
    /\ \E faq \in Fetches("faq", server),
          prompt \in Fetches("answer_generate", server), llm \in LLMReplies :
          ChatAnswerWith(r, faq, prompt, llm)
    /\ UNCHANGED <<response, store, server, reader, mcp, stage, calls>>

\* ChatCommit whose failing commit has written the row all the same
ChatCommitNotAtomic(r) ==
    /\ pc[r] = "commit"
    /\ store' = store \o
          [i \in 1..Len(pending[r]) |-> Committed(pending[r][i], Len(store) + i)]
    /\ \/ /\ pending' = [pending EXCEPT ![r] = <<>>]
          /\ pc' = [pc EXCEPT ![r] = "refresh"]
          /\ UNCHANGED <<local, exc>>
       \/ /\ Except(r, <<"commit failed">>)
          /\ UNCHANGED pending
    /\ UNCHANGED <<response, issued, clock, server, reader, mcp, stage, calls>>

\* ChatCommit on one session shared by all requests: the commit of one
\* request also writes what the others have added
ChatCommitSharedSession(r) ==
    /\ pc[r] = "commit"
    /\ \/ LET q == CHOOSE q \in Reqs : q # r
              added == pending[r] \o pending[q]
          IN  /\ store' = store \o
                    [i \in 1..Len(added) |-> Committed(added[i], Len(store) + i)]
              /\ pending' = [x \in Reqs |-> <<>>]
              /\ pc' = [pc EXCEPT ![r] = "refresh"]
              /\ UNCHANGED <<local, exc>>
       \/ /\ Except(r, <<"commit failed">>)
          /\ UNCHANGED <<store, pending>>
    /\ UNCHANGED <<response, issued, clock, server, reader, mcp, stage, calls>>

\* await db.commit(): the pending row becomes a committed row, or the
\* commit raises and nothing is committed
ChatCommit(r) ==
    /\ pc[r] = "commit"
    /\ \/ /\ store' = store \o
                [i \in 1..Len(pending[r]) |-> Committed(pending[r][i], Len(store) + i)]
          /\ pending' = [pending EXCEPT ![r] = <<>>]
          /\ pc' = [pc EXCEPT ![r] = "refresh"]
          /\ UNCHANGED <<local, exc>>
       \/ /\ Except(r, <<"commit failed">>)
          /\ UNCHANGED <<store, pending>>
    /\ UNCHANGED <<response, issued, clock, server, reader, mcp, stage, calls>>

\* await db.refresh(message_log) and, when it returns, the ChatResponse
ChatRefresh(r) ==
    /\ pc[r] = "refresh"
    /\ \/ /\ response' = [response EXCEPT ![r] =
                ChatResponse(local[r].answer, local[r].refined_query,
                             local[r].user_query, local[r].conversation_id)]
          /\ pc' = [pc EXCEPT ![r] = "done"]
          /\ local' = [local EXCEPT ![r] = NoLocal]
          /\ exc' = exc
       \/ /\ Except(r, <<"refresh failed">>)
          /\ response' = response
    /\ UNCHANGED <<pending, issued, store, clock, server, reader, mcp, stage, calls>>

\* ChatExcept that passes over a failure of the rollback and answers with
\* what the request has got so far
ChatExceptSwallows(r) ==
    /\ pc[r] = "except"
    /\ \/ response' = [response EXCEPT ![r] =
                ErrorResponse(<<"Chat processing failed: ">> \o exc[r])]
       \/ /\ issued[r] # ""
          /\ response' = [response EXCEPT ![r] =
                ChatResponse(<<>>, <<>>, <<>>, issued[r])]
    /\ pending' = [pending EXCEPT ![r] = <<>>]
    /\ pc' = [pc EXCEPT ![r] = "done"]
    /\ UNCHANGED <<local, exc, issued, store, clock, server, reader, mcp, stage, calls>>

\* ChatExcept whose rollback also takes back what the request has committed
ChatExceptDeletes(r) ==
    /\ pc[r] = "except"
    /\ \/ response' = [response EXCEPT ![r] =
                ErrorResponse(<<"Chat processing failed: ">> \o exc[r])]
       \/ /\ issued[r] # ""
          /\ response' = [response EXCEPT ![r] =
                ErrorResponse(<<"Internal Server Error">>)]
    /\ pending' = [pending EXCEPT ![r] = <<>>]
    /\ store' = SelectSeq(store, LAMBDA row : row.conversation_id # issued[r])
    /\ pc' = [pc EXCEPT ![r] = "done"]
    /\ UNCHANGED <<local, exc, issued, clock, server, reader, mcp, stage, calls>>

\* ChatExcept that, after a failed commit, rolls back and tries the commit
\* again in place of raising
ChatExceptRetries(r) ==
    /\ pc[r] = "except"
    /\ IF pending[r] # <<>>
       THEN /\ pc' = [pc EXCEPT ![r] = "commit"]
            /\ UNCHANGED <<response, pending>>
       ELSE /\ \/ response' = [response EXCEPT ![r] =
                      ErrorResponse(<<"Chat processing failed: ">> \o exc[r])]
               \/ /\ issued[r] # ""
                  /\ response' = [response EXCEPT ![r] =
                        ErrorResponse(<<"Internal Server Error">>)]
            /\ pending' = [pending EXCEPT ![r] = <<>>]
            /\ pc' = [pc EXCEPT ![r] = "done"]
    /\ UNCHANGED <<local, exc, issued, store, clock, server, reader, mcp, stage, calls>>

\* the except block: await db.rollback(), then the HTTPException; when the
\* rollback raises, its exception leaves chat instead. The rollback talks to
\* the database only when the session has begun a transaction, that is when
\* the request got to its commit
ChatExcept(r) ==
    /\ pc[r] = "except"
    /\ \/ response' = [response EXCEPT ![r] =
                ErrorResponse(<<"Chat processing failed: ">> \o exc[r])]
       \/ /\ issued[r] # ""
          /\ response' = [response EXCEPT ![r] =
                ErrorResponse(<<"Internal Server Error">>)]
    /\ pending' = [pending EXCEPT ![r] = <<>>]
    /\ pc' = [pc EXCEPT ![r] = "done"]
    /\ UNCHANGED <<local, exc, issued, store, clock, server, reader, mcp, stage, calls>>

\* ------------------------------------------------- GET /messages, /count
\* the default of get_messages' limit parameter
DefaultLimit == 100

Limits == {-1, 0, 1, 2, DefaultLimit}
Offsets == {-1, 0, 1, 2}

\* an optional str argument: <<>> when absent (None), <<s>> when given
CidArgs == {<<>>, <<"">>} \cup {<<UuidNames[i]>> : i \in 1..Len(UuidNames)}

\* the truth value Python gives an optional str: None and "" are false
Truthy(arg) == arg # <<>> /\ arg[1] # ""

\* WHERE conversation_id = :conversation_id, added only under the if
Where(rows, conversation_id) ==
    IF Truthy(conversation_id)
    THEN {row \in rows : row.conversation_id = conversation_id[1]}
    ELSE rows

\* the rows that ORDER BY timestamp DESC may put first: the latest ones
Latest(rows) == {x \in rows : \A y \in rows : x.timestamp >= y.timestamp}

\* the rows that ORDER BY timestamp ASC may put first: the earliest ones
Earliest(rows) == {x \in rows : \A y \in rows : x.timestamp <= y.timestamp}

\* OrderByTimestampDesc with the order reversed (ORDER BY timestamp ASC)
RECURSIVE OrderByTimestampAsc(_)
OrderByTimestampAsc(rows) ==
    IF rows = {} THEN {<<>>}
    ELSE UNION {{<<x>> \o p : p \in OrderByTimestampAsc(rows \ {x})} :
                   x \in Earliest(rows)}

\* ORDER BY timestamp DESC: every order the database may give the rows in
\* (rows of equal timestamp come in any order)
RECURSIVE OrderByTimestampDesc(_)
OrderByTimestampDesc(rows) ==
    IF rows = {} THEN {<<>>}
    ELSE UNION {{<<x>> \o p : p \in OrderByTimestampDesc(rows \ {x})} :
                   x \in Latest(rows)}

\* OffsetLimit that cuts to limit rows before it skips offset rows
LimitThenOffset(p, offset, limit) == SubSeq(p, offset + 1, Min(Len(p), limit))

\* OFFSET offset LIMIT limit on an ordered result
OffsetLimit(p, offset, limit) == SubSeq(p, offset + 1, Min(Len(p), offset + limit))

\* the rows of a sequence as a set
Rows(st) == {st[i] : i \in 1..Len(st)}

\* every answer the SELECT of get_messages can give on rows st
SelectMessages(st, limit, offset, conversation_id) ==
    {OffsetLimit(p, offset, limit) :
        p \in OrderByTimestampDesc(Where(Rows(st), conversation_id))}

\* SelectCount without the WHERE clause
SelectCountUnfiltered(st, conversation_id) == Len(st)

\* SelectCount that filters whenever a conversation_id is given, the empty
\* string included (if conversation_id is not None)
SelectCountIsNotNone(st, conversation_id) ==
    IF conversation_id # <<>>
    THEN Cardinality({row \in Rows(st) : row.conversation_id = conversation_id[1]})
    ELSE Len(st)

\* SELECT count(id) of get_message_count
SelectCount(st, conversation_id) == Cardinality(Where(Rows(st), conversation_id))

\* the answer of GET /messages
MessagesResponse(limit, offset, conversation_id, status, messages) ==
    [endpoint |-> "/messages", limit |-> limit, offset |-> offset,
     conversation_id |-> conversation_id, status |-> status,
     messages |-> messages, count |-> 0]

\* the answer of GET /messages/count
CountResponse(conversation_id, status, count) ==
    [endpoint |-> "/messages/count", limit |-> 0, offset |-> 0,
     conversation_id |-> conversation_id, status |-> status,
     messages |-> <<>>, count |-> count]

\* GET /messages: the database rejects a negative LIMIT or OFFSET, and any
\* execute can fail; both give HTTP 500
get_messages(limit, offset, conversation_id) ==
    /\ \/ /\ limit >= 0
          /\ offset >= 0
          /\ \E messages \in SelectMessages(store, limit, offset, conversation_id) :
                reader' = MessagesResponse(limit, offset, conversation_id, 200, messages)
       \/ reader' = MessagesResponse(limit, offset, conversation_id, 500, <<>>)
    /\ UNCHANGED <<chatVars, store, mcp, stage, calls>>

\* GET /messages/count
get_message_count(conversation_id) ==
    /\ \/ reader' = CountResponse(conversation_id, 200,
                                  SelectCount(store, conversation_id))
       \/ reader' = CountResponse(conversation_id, 500, 0)
    /\ UNCHANGED <<chatVars, store, mcp, stage, calls>>

\* the stores chat requests can have committed: row i has id i and its own
\* uuid; overlapping requests read the clock in any order before they commit
StoreRows(n) ==
    {st \in [1..n -> [id : 1..n, user_query : {<<" ", "q">>},
                      refined_query : {<<"x">>}, answer : {<<"y">>},
                      conversation_id : {UuidNames[i] : i \in 1..n},
                      timestamp : 1..MaxClock]] :
        \A i \in 1..n : st[i].id = i /\ st[i].conversation_id = UuidNames[i]}

Stores == UNION {StoreRows(n) : n \in 0..MaxStore}

InitStore ==
    /\ InitChat
    /\ store \in Stores
    /\ InitReader
    /\ InitClient
    /\ InitStage
    /\ InitCalls

NextStore ==
    \/ \E limit \in Limits, offset \in Offsets, conversation_id \in CidArgs :
          get_messages(limit, offset, conversation_id)
    \/ \E conversation_id \in CidArgs : get_message_count(conversation_id)

\* the listing endpoints run against the stores chat can have built
SpecStore == InitStore /\ [][NextStore]_vars

\* ------------------------------------------- one MCPClient call, by steps
\* an MCPClient call that has returned or raised
Finished == mcp.pc \in {"returned", "raised"}

\* get_faq_content / get_query_prompt / get_answer_prompt is called
McpCall(h) ==
    /\ mcp.pc \in {"idle", "returned", "raised"}
    /\ mcp' = [NoCall EXCEPT !.pc = "get", !.handle = h,
                             !.prev = IF Finished
                                      THEN [handle |-> mcp.handle,
                                            result |-> mcp.result]
                                      ELSE mcp.prev]
    /\ UNCHANGED <<chatVars, store, reader, stage, calls>>

\* McpGet of a client that keeps what it fetched: a resource fetched before is
\* returned without a GET
McpGetCached ==
    /\ mcp.pc = "get"
    /\ IF mcp.prev.handle = mcp.handle /\ mcp.prev.result.ok
       THEN mcp' = [mcp EXCEPT !.pc = "returned", !.result = mcp.prev.result]
       ELSE \E reply \in ServerReplies(mcp.handle, server) :
               LET remote == RemoteFetch(reply) IN
               mcp' = [mcp EXCEPT !.reply = reply,
                                  !.gets = @ + 1,
                                  !.pc = IF remote.ok THEN "returned" ELSE "fallback",
                                  !.e = remote.err,
                                  !.result = remote]
    /\ UNCHANGED <<chatVars, store, reader, stage, calls>>

\* the try block: the GET is answered (or not) and the body is taken apart
McpGet ==
    /\ mcp.pc = "get"
    /\ \E reply \in ServerReplies(mcp.handle, server) :
          LET remote == RemoteFetch(reply) IN
          mcp' = [mcp EXCEPT !.reply = reply,
                             !.gets = @ + 1,
                             !.pc = IF remote.ok THEN "returned" ELSE "fallback",
                             !.e = remote.err,
                             !.result = remote]
    /\ UNCHANGED <<chatVars, store, reader, stage, calls>>

\* McpFallback that first repeats the GET once
McpFallbackRetries ==
    /\ mcp.pc = "fallback"
    /\ IF mcp.gets < 2
       THEN mcp' = [mcp EXCEPT !.pc = "get"]
       ELSE \E file \in Files(mcp.handle) :
            LET fallback == LocalFetch(file) IN
            mcp' = [mcp EXCEPT !.file = file,
                               !.reads = @ + 1,
                               !.pc = IF fallback.ok THEN "returned" ELSE "raised",
                               !.result = IF fallback.ok THEN fallback
                                          ELSE Raise(FetchError(mcp.handle, mcp.e,
                                                                fallback.err))]
    /\ UNCHANGED <<chatVars, store, reader, stage, calls>>

\* the except block: the local file is tried
McpFallback ==
    /\ mcp.pc = "fallback"
    /\ \E file \in Files(mcp.handle) :
          LET fallback == LocalFetch(file) IN
          mcp' = [mcp EXCEPT !.file = file,
                             !.reads = @ + 1,
                             !.pc = IF fallback.ok THEN "returned" ELSE "raised",
                             !.result = IF fallback.ok THEN fallback
                                        ELSE Raise(FetchError(mcp.handle, mcp.e,
                                                              fallback.err))]
    /\ UNCHANGED <<chatVars, store, reader, stage, calls>>

\* what GET /health can come back with: no answer (network error, timeout)
\* or, from a server that is up, an answer with a status code
HealthReplies(up) ==
    [kind : {"connect_error", "timeout"} \cup
            (IF up THEN {"200", "204", "404", "500"} ELSE {}),
     content : {<<>>}]

\* health_check without its try/except: an exception of client.get leaves it
health_check_unguarded(reply) ==
    IF reply.kind \in {"connect_error", "timeout"}
    THEN [NoHealth EXCEPT !.raised = TRUE, !.err = <<reply.kind>>]
    ELSE [NoHealth EXCEPT !.value = (reply.kind = "200")]

\* MCPClient.health_check: status_code == 200, False on any exception
health_check(reply) ==
    IF reply.kind \in {"connect_error", "timeout"}
    THEN [NoHealth EXCEPT !.value = FALSE]
    ELSE [NoHealth EXCEPT !.value = (reply.kind = "200")]

\* one call of health_check
McpHealth ==
    /\ mcp.pc \in {"idle", "returned", "raised", "probed"}
    /\ \E reply \in HealthReplies(server) :
          mcp' = [NoCall EXCEPT !.pc = "probed", !.handle = "health",
                                !.reply = reply, !.gets = 1,
                                !.health = health_check(reply)]
    /\ UNCHANGED <<chatVars, store, reader, stage, calls>>

NextClient ==
    \/ \E h \in Handles : McpCall(h)
    \/ McpGet
    \/ McpFallback
    \/ McpHealth

\* the resource client alone, against every server and file state
SpecClient == Init /\ [][NextClient]_vars

\* ------------------------- POST /query_generate and POST /answer_generate
\* the refined queries a caller of /answer_generate sends
RefinedQueries == {<<>>, <<"x">>}

\* the chat request that is run against the same resources and replies
StageReq == "r1"

\* the conversation_id a caller puts in the body of POST /chat: none, or the
\* token of its session
SuppliedTokens == {<<>>, <<"session-1">>}

\* ChatRequest parsed from a JSON body: the model has the fields user_query
\* and conversation_history, and a key that is no field is left out
ChatRequest(body) ==
    [user_query |-> body.user_query, conversation_history |-> body.history]

\* every request body, fetch outcome and model reply the stages are run on
Givens(up) ==
    {[NoStage EXCEPT !.user_query = user_query, !.history = history,
                     !.conversation_id = conversation_id,
                     !.refined_query = refined_query, !.qfetch = qfetch,
                     !.faq = faq, !.prompt = prompt,
                     !.llm_q = llm_q, !.llm_a = llm_a] :
        user_query \in UserQueries, history \in Histories,
        conversation_id \in SuppliedTokens, refined_query \in RefinedQueries,
        qfetch \in Fetches("query_generate", up), faq \in Fetches("faq", up),
        prompt \in Fetches("answer_generate", up),
        llm_q \in LLMReplies, llm_a \in LLMReplies}

InitStages ==
    /\ InitChat
    /\ store = <<>>
    /\ InitReader
    /\ InitClient
    /\ stage \in Givens(server)
    /\ InitCalls

\* the answer of a stage endpoint: its response model, or HTTP 500 with the
\* detail of the HTTPException
StageAnswer(result, sent) ==
    IF result.ok
    THEN [NoStageCall EXCEPT !.called = TRUE, !.status = 200, !.sent = sent,
                             !.refined_query = result.val.refined_query,
                             !.original_query = result.val.original_query]
    ELSE [NoStageCall EXCEPT !.called = TRUE, !.status = 500, !.sent = sent,
                             !.detail = result.err]

\* PostQueryGenerate that also logs the refined query to the database
PostQueryGenerateLogged ==
    /\ ~stage.query.called
    /\ LET q == query_generate(stage.user_query, stage.history, stage.qfetch,
                               stage.llm_q)
       IN  /\ stage' = [stage EXCEPT !.query = StageAnswer(q, <<>>)]
           /\ store' = Append(store,
                  Committed(MessageLog(stage.user_query, <<>>, <<>>, "", clock),
                            Len(store) + 1))
    /\ UNCHANGED <<chatVars, reader, mcp, calls>>

\* POST /query_generate, called over HTTP
PostQueryGenerate ==
    /\ ~stage.query.called
    /\ LET q == query_generate(stage.user_query, stage.history, stage.qfetch,
                               stage.llm_q)
           sent == IF stage.qfetch.ok
                   THEN Invoked(RenderQuery(stage.user_query, stage.history,
                                            stage.qfetch.val))
                   ELSE <<>>
       IN  stage' = [stage EXCEPT !.query = StageAnswer(q, sent)]
    /\ UNCHANGED <<chatVars, store, reader, mcp, calls>>

\* POST /answer_generate, called over HTTP
PostAnswerGenerate ==
    /\ ~stage.answer.called
    /\ LET a == answer_generate(stage.refined_query, stage.user_query,
                                stage.faq, stage.prompt, stage.llm_a)
           sent == IF stage.faq.ok /\ stage.prompt.ok
                   THEN Invoked(RenderAnswer(stage.refined_query, stage.faq.val,
                                             stage.prompt.val))
                   ELSE <<>>
       IN  stage' = [stage EXCEPT !.answer =
                [StageAnswer(a, sent) EXCEPT
                    !.answer = IF a.ok THEN a.val.answer ELSE <<>>]]
    /\ UNCHANGED <<chatVars, store, reader, mcp, calls>>

\* chat's step 1 on the given request body, fetch outcome and model reply
ChatRefineGiven ==
    /\ pc[StageReq] = "idle"
    /\ ChatRefineWith(StageReq, ChatRequest(stage).user_query,
                      ChatRequest(stage).conversation_history, stage.qfetch,
                      stage.llm_q)
    /\ UNCHANGED <<response, pending, issued, store, clock, server, reader, mcp, stage, calls>>

\* chat's step 2 on the given fetch outcomes and model reply
ChatAnswerGiven ==
    /\ pc[StageReq] = "answering"
    /\ ChatAnswerWith(StageReq, stage.faq, stage.prompt, stage.llm_a)
    /\ UNCHANGED <<response, store, server, reader, mcp, stage, calls>>

NextStages ==
    \/ PostQueryGenerate
    \/ PostAnswerGenerate
    \/ ChatRefineGiven
    \/ ChatAnswerGiven
    \/ \E r \in Reqs : ChatCommit(r)
    \/ \E r \in Reqs : ChatRefresh(r)
    \/ \E r \in Reqs : ChatExcept(r)

\* the stage endpoints and one chat request on the same inputs
SpecStages == InitStages /\ [][NextStages]_vars

\* --------------------------------- one chat request, followed call by call
\* the get_* call chat's code comes to next: get_query_prompt inside
\* query_generate, then get_faq_content and get_answer_prompt inside
\* answer_generate
CallDue(h) ==
    CASE h = "query_generate" -> pc[StageReq] = "idle"
      [] h = "faq" -> pc[StageReq] = "answering" /\ ~calls.faq_done
      [] h = "answer_generate" -> pc[StageReq] = "answering" /\ calls.faq_done

\* the calls counted when a get_* call has come back
Counted(h) ==
    [calls EXCEPT !.gets[h] = @ + mcp.gets, !.reads[h] = @ + mcp.reads]

\* chat calls the get_* method its code has come to
StepCall(h) ==
    /\ mcp.pc = "idle"
    /\ CallDue(h)
    /\ McpCall(h)

\* StepRefine that carries on to the answer stage with the raw query when
\* query_generate has raised
StepRefineCarriesOn ==
    /\ pc[StageReq] = "idle"
    /\ Finished
    /\ mcp.handle = "query_generate"
    /\ \E user_query \in UserQueries, history \in Histories, llm \in LLMReplies :
          LET q == query_generate(user_query, history, mcp.result, llm) IN
          /\ pc' = [pc EXCEPT ![StageReq] = "answering"]
          /\ local' = [local EXCEPT ![StageReq] =
                 [NoLocal EXCEPT !.user_query = user_query,
                                 !.refined_query = IF q.ok THEN q.val.refined_query
                                                   ELSE user_query]]
          /\ exc' = [exc EXCEPT ![StageReq] =
                 IF q.ok THEN <<>> ELSE HTTPExceptionStr(q.err)]
          /\ calls' = [Counted("query_generate") EXCEPT !.invoked["query"] = @ + 1]
    /\ mcp' = NoCall
    /\ UNCHANGED <<response, pending, issued, store, clock, server, reader, stage>>

\* get_query_prompt has come back: the rest of query_generate runs
StepRefine ==
    /\ pc[StageReq] = "idle"
    /\ Finished
    /\ mcp.handle = "query_generate"
    /\ \E user_query \in UserQueries, history \in Histories, llm \in LLMReplies :
          /\ ChatRefineWith(StageReq, user_query, history, mcp.result, llm)
          /\ calls' = [Counted("query_generate") EXCEPT !.invoked["query"] = @ +
                 (IF mcp.result.ok
                  THEN Len(Invoked(RenderQuery(user_query, history, mcp.result.val)))
                  ELSE 0)]
    /\ mcp' = NoCall
    /\ UNCHANGED <<response, pending, issued, store, clock, server, reader, stage>>

\* get_faq_content has come back: its text is held, or its exception
\* leaves answer_generate
StepFaq ==
    /\ pc[StageReq] = "answering"
    /\ Finished
    /\ mcp.handle = "faq"
    /\ IF mcp.result.ok
       THEN /\ calls' = [Counted("faq") EXCEPT !.faq_done = TRUE,
                                               !.faq = mcp.result]
            /\ UNCHANGED <<pc, local, exc, pending, issued, clock>>
       ELSE /\ ChatAnswerWith(StageReq, mcp.result, Raise(<<>>), NoReply)
            /\ calls' = Counted("faq")
    /\ mcp' = NoCall
    /\ UNCHANGED <<response, store, server, reader, stage>>

\* get_answer_prompt has come back: the rest of answer_generate runs and,
\* when it returns, chat goes on to db.add
StepAnswer ==
    /\ pc[StageReq] = "answering"
    /\ Finished
    /\ mcp.handle = "answer_generate"
    /\ \E llm \in LLMReplies :
          /\ ChatAnswerWith(StageReq, calls.faq, mcp.result, llm)
          /\ calls' = [Counted("answer_generate") EXCEPT !.invoked["answer"] = @ +
                 (IF mcp.result.ok
                  THEN Len(Invoked(RenderAnswer(local[StageReq].refined_query,
                                                calls.faq.val, mcp.result.val)))
                  ELSE 0)]
    /\ mcp' = NoCall
    /\ UNCHANGED <<response, store, server, reader, stage>>

NextSteps ==
    \/ \E h \in Handles : StepCall(h)
    \/ McpGet
    \/ McpFallback
    \/ StepRefine
    \/ StepFaq
    \/ StepAnswer
    \/ \E r \in Reqs : ChatCommit(r)
    \/ \E r \in Reqs : ChatRefresh(r)
    \/ \E r \in Reqs : ChatExcept(r)

\* one chat request with every call of the resource client taken step by step
SpecSteps == Init /\ [][NextSteps]_vars

\* the same request when every call it awaits comes back (returns or raises):
\* a coroutine whose awaited call has come back is resumed by the event loop,
\* so each step after the request's arrival is taken once it can be. The
\* arrival itself (the first get_query_prompt) is under no such condition
SpecStepsFair ==
    /\ Init
    /\ [][NextSteps]_vars
    /\ WF_vars(StepCall("faq"))
    /\ WF_vars(StepCall("answer_generate"))
    /\ WF_vars(McpGet)
    /\ WF_vars(McpFallback)
    /\ WF_vars(StepRefine)
    /\ WF_vars(StepFaq)
    /\ WF_vars(StepAnswer)
    /\ WF_vars(ChatCommit(StageReq))
    /\ WF_vars(ChatRefresh(StageReq))
    /\ WF_vars(ChatExcept(StageReq))

Next ==
    \/ \E r \in Reqs : ChatRefine(r)
    \/ \E r \in Reqs : ChatAnswer(r)
    \/ \E r \in Reqs : ChatCommit(r)
    \/ \E r \in Reqs : ChatRefresh(r)
    \/ \E r \in Reqs : ChatExcept(r)

Spec == Init /\ [][Next]_vars

\* ================================================================ claims
\* the rows request r has in the store: those carrying the uuid drawn for r
RowsOf(r) == {i \in 1..Len(store) : store[i].conversation_id = issued[r]}

Succeeded(r) == response[r].status = 200
Failed(r) == response[r].status = 500

\* the stage a caught exception comes from, read off its text
StageOf(e) ==
    IF Len(e) >= 2 /\ e[2] = "Query generation failed: " THEN "Refining"
    ELSE IF Len(e) >= 2 /\ e[2] = "Answer generation failed: " THEN "Answering"
    ELSE "Persisting"

FailedEarly(r) == exc[r] # <<>> /\ StageOf(exc[r]) \in {"Refining", "Answering"}

\* C1: a chat request that returns success has exactly one row in the store
\* (none before its commit), and that row's user_query is the request's
\* user_query unchanged
C1_SuccessStoresOneRecord ==
    \A r \in Reqs :
        /\ pc[r] \in {"idle", "answering", "commit"} => RowsOf(r) = {}
        /\ Succeeded(r) =>
              /\ issued[r] # ""
              /\ Cardinality(RowsOf(r)) = 1
              /\ \A i \in RowsOf(r) :
                    /\ store[i].user_query = response[r].original_query
                    /\ store[i].conversation_id = response[r].conversation_id

C1_Witness ==
    \E r \in Reqs :
        /\ Succeeded(r)
        /\ response[r].original_query = <<" ", "q">>
        /\ Len(store) = 2

\* C2: a chat request that failed in Refining or Answering has put nothing
\* in the store and left nothing pending: every row is the one row of some
\* other request, so no refined query is stored without its answer
C2_EarlyFailureStoresNothing ==
    \A r \in Reqs :
        FailedEarly(r) =>
            /\ pending[r] = <<>>
            /\ issued[r] = ""
            /\ \A i \in 1..Len(store) :
                  \E q \in Reqs \ {r} :
                      issued[q] # "" /\ store[i].conversation_id = issued[q]
            /\ \A q \in Reqs \ {r} : Cardinality(RowsOf(q)) <= 1

C2_Witness ==
    \E r \in Reqs :
        /\ FailedEarly(r)
        /\ StageOf(exc[r]) = "Answering"
        /\ pc[r] = "done"
        /\ Len(store) = 1

\* what request r's commit failure leaves: no success, no row of r, an
\* empty answer to a listing by r's conversation_id
C3_NoRowAfterFailedCommit ==
    \A r \in Reqs :
        exc[r] = <<"commit failed">> =>
            /\ ~Succeeded(r)
            /\ pc[r] = "done" => Failed(r) /\ pending[r] = <<>>
            /\ RowsOf(r) = {}
            /\ SelectMessages(store, DefaultLimit, 0, <<issued[r]>>) = {<<>>}

\* a row enters the store whole: by the commit step of one request, holding
\* all the fields that request computed; no other step changes the store
C3_RowsWrittenWhole ==
    store' # store =>
        \E r \in Reqs :
            /\ pc[r] = "commit"
            /\ pc'[r] = "refresh"
            /\ store' = Append(store,
                  [id |-> Len(store) + 1,
                   user_query |-> local[r].user_query,
                   refined_query |-> local[r].refined_query,
                   answer |-> local[r].answer,
                   conversation_id |-> local[r].conversation_id,
                   timestamp |-> local[r].timestamp])

\* C3: when the commit fails after the answer stage, the request fails and
\* no listing shows a row of it; and no row is ever written in part
C3_FailedCommitLeavesNoRecord ==
    [] C3_NoRowAfterFailedCommit /\ [][C3_RowsWrittenWhole]_vars

C3_Witness ==
    \E r \in Reqs :
        /\ exc[r] = <<"commit failed">>
        /\ pc[r] = "done"
        /\ Failed(r)
        /\ Len(store) = 1

\* C4: every row in the store has non-empty user_query, refined_query,
\* answer and conversation_id
C4_TextFieldsNonEmpty ==
    \A i \in 1..Len(store) :
        /\ store[i].user_query # <<>>
        /\ store[i].refined_query # <<>>
        /\ store[i].answer # <<>>
        /\ store[i].conversation_id # ""

\* the text of an exception holds the atom a
Mentions(e, a) == \E i \in 1..Len(e) : e[i] = a

\* what str() of the fallback's exception says for each state of the file
LocalCause(file) == IF file.kind = "missing" THEN "Could not find file" ELSE "OSError"

\* C5: a fetch raises only when the GET failed and the local read failed
\* too, and the error then carries both causes; when the GET fails and the
\* local file is readable, the fetch returns the file's content
C5_RaisesOnlyWhenBothFail ==
    /\ mcp.pc = "raised" =>
          /\ mcp.reply.kind \in RemoteFailures
          /\ mcp.file.kind \in {"missing", "unreadable"}
          /\ ~mcp.result.ok
          /\ Mentions(mcp.result.err, mcp.reply.kind)
          /\ Mentions(mcp.result.err, LocalCause(mcp.file))
    /\ Finished /\ mcp.reply.kind \in RemoteFailures /\ mcp.file.kind = "file" =>
          /\ mcp.pc = "returned"
          /\ mcp.result.ok
          /\ mcp.result.val = mcp.file.content
    /\ Finished /\ mcp.reply.kind \in RemoteFailures
          /\ mcp.file.kind \in {"missing", "unreadable"} => mcp.pc = "raised"
    /\ Finished => mcp.result = FetchResource(mcp.handle, mcp.reply, mcp.file)

C5_Witness ==
    /\ mcp.pc = "raised"
    /\ mcp.reply.kind = "http_error"
    /\ mcp.file.kind = "unreadable"

\* C6: within one fetch, a GET that brought the content leaves the local
\* file unread; a GET that failed (network error, timeout, status, body) is
\* followed by exactly one pass through the local read, never two
C6_LocalReadOnceOnRemoteFailure ==
    /\ mcp.gets <= 1
    /\ mcp.reads <= 1
    /\ Finished =>
          /\ mcp.gets = 1
          /\ mcp.reply.kind = "content" => mcp.reads = 0 /\ mcp.file = NoReply
          /\ mcp.reply.kind \in RemoteFailures => mcp.reads = 1 /\ mcp.file # NoReply

C6_Witness ==
    /\ Finished
    /\ mcp.reply.kind = "not_json"
    /\ mcp.reads = 1
    /\ mcp.file.kind = "missing"

\* C7: every reply that does not carry the content (network error, timeout,
\* non-success status, malformed body, success status without "content")
\* sends the fetch to the local fallback, and what the fetch returns is then
\* never taken from that reply
C7_NoContentFallsBack ==
    Finished /\ mcp.reply.kind # "content" =>
        /\ mcp.reads = 1
        /\ mcp.file # NoReply
        /\ mcp.result.ok => mcp.result.val = mcp.file.content

\* C8: with the MCP server down for all three fetches, a request whose
\* commit went through (local files read, both model calls done) ends in
\* success with its row stored; a request that caught any exception fails
C8_OnlyRemoteFailureRecovered ==
    \A r \in Reqs :
        pc[r] = "done" =>
            /\ ~server /\ RowsOf(r) # {} => Succeeded(r)
            /\ Succeeded(r) => RowsOf(r) # {}
            /\ exc[r] # <<>> => Failed(r)

\* C9: a listing is in descending order of timestamp: of two rows of one
\* answer with different timestamps the later one comes first
C9_ListingNewestFirst ==
    reader.endpoint = "/messages" /\ reader.status = 200 =>
        \A i, j \in 1..Len(reader.messages) :
            reader.messages[i].timestamp > reader.messages[j].timestamp => i < j

C9_Witness ==
    /\ reader.endpoint = "/messages"
    /\ reader.status = 200
    /\ reader.conversation_id = <<>>
    /\ Len(reader.messages) = 3
    /\ reader.messages[1].timestamp > reader.messages[3].timestamp
    /\ reader.messages[1].id > reader.messages[2].id

\* the answer of the last listing is a window of the rows keep, ordered by
\* descending timestamp: offset rows skipped, at most limit of the rest
ListingIsWindowOf(keep) ==
    LET n == Cardinality(keep)
        k == Max(0, Min(reader.limit, n - reader.offset))
    IN  /\ Len(reader.messages) = k
        /\ \E p \in [1..n -> keep] :
              /\ \A i, j \in 1..n : i # j => p[i] # p[j]
              /\ \A i, j \in 1..n : i < j => p[i].timestamp >= p[j].timestamp
              /\ \A i \in 1..k : reader.messages[i] = p[reader.offset + i]

\* C10 as claimed: the rows kept are those of the given conversation_id,
\* all rows only when none is given
C10_FilterWheneverGiven ==
    reader.endpoint = "/messages" /\ reader.status = 200 =>
        ListingIsWindowOf(
            IF reader.conversation_id = <<>> THEN Rows(store)
            ELSE {row \in Rows(store) :
                     row.conversation_id = reader.conversation_id[1]})

\* C10: a listing keeps the rows of the given conversation_id (all rows
\* when none or the empty string is given), skips offset rows of that
\* ordered selection and returns at most limit of the rest, whatever limit
C10_FilterThenOffsetLimit ==
    reader.endpoint = "/messages" /\ reader.status = 200 =>
        /\ ListingIsWindowOf(
              IF reader.conversation_id \in {<<>>, <<"">>} THEN Rows(store)
              ELSE {row \in Rows(store) :
                       row.conversation_id = reader.conversation_id[1]})
        /\ reader.conversation_id \notin {<<>>, <<"">>} =>
              \A i \in 1..Len(reader.messages) :
                  reader.messages[i].conversation_id = reader.conversation_id[1]

C10_Witness ==
    /\ reader.endpoint = "/messages"
    /\ reader.status = 200
    /\ Len(store) = 3
    /\ reader.conversation_id = <<"uuid-2">>
    /\ reader.offset = 0
    /\ reader.limit = 1
    /\ Len(reader.messages) = 1
    /\ store[2].timestamp < store[3].timestamp

\* the number of stored rows whose conversation_id is c
CountOf(c) == Cardinality({i \in 1..Len(store) : store[i].conversation_id = c})

\* C11 as claimed: count(c) is the number of rows of conversation c for
\* every given c, and count() the number of all rows
C11_CountWheneverGiven ==
    reader.endpoint = "/messages/count" /\ reader.status = 200 =>
        reader.count = IF reader.conversation_id = <<>> THEN Len(store)
                       ELSE CountOf(reader.conversation_id[1])

\* C11: count(c) is the number of stored rows whose conversation_id is c,
\* for c not the empty string; count() and count("") are the number of all
\* stored rows
C11_CountFiltered ==
    reader.endpoint = "/messages/count" /\ reader.status = 200 =>
        reader.count = IF reader.conversation_id \in {<<>>, <<"">>} THEN Len(store)
                       ELSE CountOf(reader.conversation_id[1])

C11_Witness ==
    /\ reader.endpoint = "/messages/count"
    /\ reader.status = 200
    /\ Len(store) = 3
    /\ reader.conversation_id = <<"uuid-2">>
    /\ reader.count = 1

\* every answer GET /messages?conversation_id=c can give in this state, with
\* the default limit and offset
ListingOf(c) == SelectMessages(store, DefaultLimit, 0, <<c>>)

\* C12: once a chat request has returned success, listing with the
\* conversation_id of its response gives exactly one record, whose
\* user_query, refined_query, answer and conversation_id are the response's
\* original_query, refined_query, answer and conversation_id, whatever other
\* requests have stored
C12_ListingRoundTrip ==
    \A r \in Reqs :
        Succeeded(r) =>
            /\ ListingOf(response[r].conversation_id) # {}
            /\ \A messages \in ListingOf(response[r].conversation_id) :
                  /\ Len(messages) = 1
                  /\ messages[1].user_query = response[r].original_query
                  /\ messages[1].refined_query = response[r].refined_query
                  /\ messages[1].answer = response[r].answer
                  /\ messages[1].conversation_id = response[r].conversation_id

C12_Witness ==
    /\ \A r \in Reqs : Succeeded(r)
    /\ Len(store) = 2
    /\ response["r1"].original_query # response["r2"].original_query
    /\ \A messages \in ListingOf(response["r1"].conversation_id) :
          messages[1].user_query = response["r1"].original_query

\* a step from the answer of one GET /messages to the answer of the next
\* with the same arguments, the store unchanged between them
ListedTwice ==
    /\ reader.endpoint = "/messages" /\ reader.status = 200
    /\ reader'.endpoint = "/messages" /\ reader'.status = 200
    /\ reader'.limit = reader.limit
    /\ reader'.offset = reader.offset
    /\ reader'.conversation_id = reader.conversation_id
    /\ store' = store

\* C13: two consecutive listings with identical arguments and no write
\* between them return identical sequences of records, also when stored
\* records share a timestamp
C13_ListingIdempotent ==
    [][ListedTwice => reader'.messages = reader.messages]_vars

\* the request a stored row comes from: the one its uuid was drawn for
OwnersOf(row) == {r \in Reqs : issued[r] = row.conversation_id}

\* C14: with chat requests running concurrently, every stored row is the
\* whole row of exactly one request whose commit has completed, ids are
\* pairwise distinct, and a successful request has exactly one row, holding
\* the values of its own response
C14_AppendsIndivisible ==
    /\ \A i, j \in 1..Len(store) : i # j => store[i].id # store[j].id
    /\ \A i \in 1..Len(store) :
          /\ Cardinality(OwnersOf(store[i])) = 1
          /\ \A r \in OwnersOf(store[i]) :
                /\ pc[r] \notin {"idle", "answering", "commit"}
                /\ pc[r] = "refresh" =>
                      /\ store[i].user_query = local[r].user_query
                      /\ store[i].refined_query = local[r].refined_query
                      /\ store[i].answer = local[r].answer
                      /\ store[i].timestamp = local[r].timestamp
                /\ Succeeded(r) =>
                      /\ store[i].user_query = response[r].original_query
                      /\ store[i].refined_query = response[r].refined_query
                      /\ store[i].answer = response[r].answer
    /\ \A r \in Reqs :
          /\ Cardinality(RowsOf(r)) <= 1
          /\ Succeeded(r) => Cardinality(RowsOf(r)) = 1

C14_Witness ==
    \E r, q \in Reqs :
        /\ pc[r] = "refresh"
        /\ pc[q] = "commit"
        /\ Len(store) = 1
        /\ local[r].user_query # local[q].user_query
        /\ local[r].answer # local[q].answer

\* C15: timestamps do not decrease along the order of commit: of two stored
\* rows, the one with the smaller id has no later timestamp, also when the
\* two requests overlapped
C15_TimestampsMonotone ==
    \A i, j \in 1..Len(store) :
        store[i].id < store[j].id => store[i].timestamp <= store[j].timestamp

\* C16: health_check never raises; it returns true only after an answer with
\* a success status, and false after a network error, a timeout or a
\* non-success status
C16_HealthProbeNeverRaises ==
    mcp.pc = "probed" =>
        /\ ~mcp.health.raised
        /\ mcp.health.value => mcp.reply.kind \in {"200", "204"}
        /\ mcp.reply.kind \in {"connect_error", "timeout", "404", "500"} =>
              ~mcp.health.value

C16_Witness ==
    /\ mcp.pc = "probed"
    /\ mcp.reply.kind = "timeout"
    /\ ~mcp.health.raised
    /\ ~mcp.health.value

\* the stage an error detail names: the tag of query_generate, the tag of
\* answer_generate, or neither (only Persisting is left then)
DetailStage(detail) ==
    IF Mentions(detail, "Query generation failed: ") THEN "Refining"
    ELSE IF Mentions(detail, "Answer generation failed: ") THEN "Answering"
    ELSE "Persisting"

\* the stage a request stands in, by the step it is at
StageAt(r) ==
    CASE pc[r] = "idle" -> "Refining"
      [] pc[r] = "answering" -> "Answering"
      [] OTHER -> "Persisting"

\* a failed request is answered with the exception chat caught
C17_ErrorCarriesCause ==
    \A r \in Reqs :
        Failed(r) =>
            /\ exc[r] # <<>>
            /\ response[r].detail = <<"Chat processing failed: ">> \o exc[r]

\* the exception chat catches names the stage the request was in
C17_StageNamed ==
    \A r \in Reqs :
        pc'[r] = "except" /\ pc[r] # "except" =>
            /\ exc'[r] # <<>>
            /\ DetailStage(exc'[r]) = StageAt(r)

\* C17: every failed chat request is answered with one error that names the
\* stage that failed (Refining, Answering or Persisting) and carries the
\* cause; the stage named is the stage the request failed in
C17_ErrorIdentifiesStage ==
    [] C17_ErrorCarriesCause /\ [][C17_StageNamed]_vars

\* POST /query_generate and chat's Refining stage, run on the same request
\* body, fetch outcome and model reply, give the same refined query or fail
\* with the same error
C18_RefiningAlike ==
    stage.query.called =>
        /\ pc[StageReq] \in {"answering", "commit", "refresh"} =>
              /\ stage.query.status = 200
              /\ stage.query.refined_query = local[StageReq].refined_query
              /\ stage.query.original_query = local[StageReq].user_query
        /\ Succeeded(StageReq) =>
              /\ stage.query.status = 200
              /\ stage.query.refined_query = response[StageReq].refined_query
        /\ stage.query.status = 500 /\ pc[StageReq] # "idle" =>
              exc[StageReq] = HTTPExceptionStr(stage.query.detail)
        /\ exc[StageReq] # <<>> /\ DetailStage(exc[StageReq]) = "Refining" =>
              stage.query.status = 500

\* POST /answer_generate and chat's Answering stage, run on the same refined
\* query, fetch outcomes and model reply, give the same answer or fail with
\* the same error
C18_AnsweringAlike ==
    stage.answer.called =>
        /\ /\ pc[StageReq] \in {"commit", "refresh"}
           /\ local[StageReq].refined_query = stage.refined_query
           => /\ stage.answer.status = 200
              /\ stage.answer.answer = local[StageReq].answer
              /\ stage.answer.refined_query = local[StageReq].refined_query
              /\ stage.answer.original_query = local[StageReq].user_query
        /\ /\ Succeeded(StageReq)
           /\ response[StageReq].refined_query = stage.refined_query
           => /\ stage.answer.status = 200
              /\ stage.answer.answer = response[StageReq].answer
        /\ /\ exc[StageReq] # <<>>
           /\ DetailStage(exc[StageReq]) = "Answering"
           => /\ stage.answer.status = 500
              /\ exc[StageReq] = HTTPExceptionStr(stage.answer.detail)
        /\ issued[StageReq] # "" => stage.answer.status = 200

\* a call of a stage endpoint leaves the store, and what is pending for it,
\* as they are
C18_StagesLeaveStore ==
    stage' # stage => store' = store /\ pending' = pending

\* C18: the standalone query-refinement and answer-generation endpoints
\* give, on the same inputs, resources and model replies, what the chat
\* request's Refining and Answering stages give, and they never add, change
\* or remove a stored record
C18_StagesMatchChat ==
    /\ [] (C18_RefiningAlike /\ C18_AnsweringAlike)
    /\ [][C18_StagesLeaveStore]_vars

C18_Witness ==
    /\ stage.query.called
    /\ stage.answer.called
    /\ Succeeded(StageReq)
    /\ Len(store) = 1
    /\ stage.query.refined_query = <<"x">>
    /\ stage.answer.answer = <<"x">>
    /\ response[StageReq].refined_query = stage.refined_query

\* C19: refinement and answer generation fail when the model call errors
\* and when the model's text is empty or blank; neither ever returns the
\* empty string as its result
C19_NoEmptyGeneration ==
    /\ stage.query.called =>
          /\ stage.llm_q.kind = "error" => stage.query.status = 500
          /\ stage.query.status = 200 => stage.query.refined_query # <<>>
    /\ stage.answer.called =>
          /\ stage.llm_a.kind = "error" => stage.answer.status = 500
          /\ stage.answer.status = 200 => stage.answer.answer # <<>>

\* the template has a replacement field outside the names supplied
Unsupplied(template, supplied) ==
    \E i \in 1..Len(template) : template[i] \in FieldNames \ supplied

\* a prompt handed to the model still holds a replacement field
Unresolved(sent) ==
    \E k \in 1..Len(sent) : \E i \in 1..Len(sent[k]) : sent[k][i] \in FieldNames

\* C20: a template naming a field the operation does not supply (other than
\* conversation_history / user_query for refinement, faq_content /
\* refined_query for answering) makes the operation fail with the template
\* error, without a call of the model; no prompt handed to the model holds
\* an unresolved replacement field
C20_StrictRendering ==
    /\ /\ stage.query.called
       /\ stage.qfetch.ok
       /\ Unsupplied(stage.qfetch.val, {"conversation_history", "user_query"})
       => /\ stage.query.status = 500
          /\ Mentions(stage.query.detail, "KeyError")
          /\ stage.query.sent = <<>>
    /\ /\ stage.answer.called
       /\ stage.faq.ok
       /\ stage.prompt.ok
       /\ Unsupplied(stage.prompt.val, {"faq_content", "refined_query"})
       => /\ stage.answer.status = 500
          /\ Mentions(stage.answer.detail, "KeyError")
          /\ stage.answer.sent = <<>>
    /\ ~Unresolved(stage.query.sent)
    /\ ~Unresolved(stage.answer.sent)
    /\ Len(stage.query.sent) <= 1
    /\ Len(stage.answer.sent) <= 1

C20_Witness ==
    /\ stage.query.called
    /\ stage.qfetch.ok
    /\ stage.qfetch.val = <<"user_query", "faq_content">>
    /\ stage.llm_q.kind = "message"
    /\ stage.query.status = 500
    /\ stage.query.sent = <<>>
    /\ stage.answer.called
    /\ Len(stage.answer.sent) = 1

\* the steps of chat in program order: the step after each, when no
\* exception is raised
StepAfter(at) ==
    CASE at = "idle" -> "answering"
      [] at = "answering" -> "commit"
      [] at = "commit" -> "refresh"
      [] at = "refresh" -> "done"
      [] OTHER -> "done"

\* the refined queries refine_query can return: a reply of the model, stripped
RefineOutputs == {Strip(content) : content \in LLMContents}

\* one step of request r keeps the order Refining, Answering, Persisting
\* and hands the output of its own refine_query on unchanged
C21_StepInOrder(r) ==
    /\ pc'[r] # pc[r] => pc'[r] \in {StepAfter(pc[r]), "except"} /\ pc[r] # "done"
    /\ pc[r] = "idle" => local[r] = NoLocal /\ pending[r] = <<>> /\ issued[r] = ""
    /\ pc[r] = "idle" /\ pc'[r] = "answering" =>
          /\ local'[r].refined_query \in RefineOutputs
          /\ local'[r].answer = <<>>
          /\ pending'[r] = <<>>
          /\ issued'[r] = ""
    /\ pc[r] = "answering" /\ pc'[r] = "commit" =>
          /\ local'[r].refined_query = local[r].refined_query
          /\ local'[r].user_query = local[r].user_query
          /\ pending[r] = <<>>
          /\ Len(pending'[r]) = 1
          /\ pending'[r][1].refined_query = local[r].refined_query
          /\ pending'[r][1].user_query = local[r].user_query
          /\ pending'[r][1].answer = local'[r].answer
    /\ pc[r] = "commit" /\ pc'[r] = "refresh" =>
          /\ Len(store') = Len(store) + 1
          /\ store'[Len(store')].refined_query = local[r].refined_query
          /\ store'[Len(store')].conversation_id = issued[r]
    /\ pc[r] = "refresh" /\ pc'[r] = "done" =>
          response'[r].refined_query = local[r].refined_query

\* C21: within one chat request the stages run in the order Refining,
\* Answering, Persisting; the row is added only after the answer stage has
\* returned, and the refined query handed on and stored is the output of
\* this request's refine_query
C21_StagesInOrder == [][\A r \in Reqs : C21_StepInOrder(r)]_vars

C21_Witness ==
    \E r, q \in Reqs :
        /\ pc[r] = "refresh"
        /\ pc[q] = "commit"
        /\ local[r].user_query = <<" ", "q">>
        /\ local[r].refined_query = <<"x">>
        /\ local[q].refined_query = <<>>
        /\ \E i \in RowsOf(r) : store[i].refined_query = <<"x">>

\* how far along chat's code a request is
Rank(at) ==
    CASE at = "idle" -> 0
      [] at = "answering" -> 1
      [] at = "commit" -> 2
      [] at = "refresh" -> 3
      [] at = "except" -> 4
      [] OTHER -> 5

\* the GETs and local reads made for resource h so far, the call under way
\* included
GetsOf(h) == calls.gets[h] + (IF mcp.handle = h THEN mcp.gets ELSE 0)
ReadsOf(h) == calls.reads[h] + (IF mcp.handle = h THEN mcp.reads ELSE 0)

\* no resource is fetched twice and the model is called once per stage at most
C22_CallsAtMostOnce ==
    /\ \A h \in Handles : GetsOf(h) <= 1 /\ ReadsOf(h) <= 1
    /\ calls.invoked["query"] <= 1
    /\ calls.invoked["answer"] <= 1
    /\ pc[StageReq] \in {"commit", "refresh", "except", "done"} => mcp = NoCall

\* no step of the request is taken again: the request only moves forward,
\* so the commit is attempted once, and after a failure no call is made
C22_NoStepRepeated ==
    /\ pc'[StageReq] # pc[StageReq] => Rank(pc'[StageReq]) > Rank(pc[StageReq])
    /\ pc[StageReq] \in {"except", "done"} => calls' = calls /\ mcp' = mcp /\ store' = store
    /\ Len(store') <= 1

\* C22: a chat request is single-attempt: each of the three resources is
\* fetched at most once (one GET and one local read at most), the model is
\* invoked at most once per stage, the commit is attempted at most once and
\* nothing is repeated after a failure
C22_SingleAttempt == [] C22_CallsAtMostOnce /\ [][C22_NoStepRepeated]_vars

C22_Witness ==
    /\ Succeeded(StageReq)
    /\ \A h \in Handles : calls.gets[h] = 1
    /\ calls.reads["faq"] = 1
    /\ calls.reads["answer_generate"] = 0
    /\ calls.invoked["query"] = 1
    /\ calls.invoked["answer"] = 1

\* C23: a chat request that failed in Refining has fetched neither the FAQ
\* content nor the answer template, has not called the model for the answer,
\* has drawn no conversation token and has added nothing to the store
C23_RefiningFailureStopsRequest ==
    exc[StageReq] # <<>> /\ DetailStage(exc[StageReq]) = "Refining" =>
        /\ GetsOf("faq") = 0 /\ ReadsOf("faq") = 0
        /\ GetsOf("answer_generate") = 0 /\ ReadsOf("answer_generate") = 0
        /\ mcp.handle \notin {"faq", "answer_generate"}
        /\ ~calls.faq_done
        /\ calls.invoked["answer"] = 0
        /\ issued[StageReq] = ""
        /\ pending[StageReq] = <<>>
        /\ store = <<>>
        /\ pc[StageReq] \in {"except", "done"}
        /\ ~Succeeded(StageReq)

C23_Witness ==
    /\ pc[StageReq] = "done"
    /\ Failed(StageReq)
    /\ DetailStage(exc[StageReq]) = "Refining"
    /\ calls.gets["query_generate"] = 1
    /\ calls.invoked["query"] = 1

\* request r has ended in its except block
EndedInExcept(r) == pc[r] = "done" /\ exc[r] # <<>>

\* C24: a request that goes through the except block ends in an error
\* whether its rollback returns or raises (a rollback that raises is
\* answered with a server error, never with success), and a request whose
\* commit failed has neither a row nor a pending row
C24_RollbackFailureReported ==
    \A r \in Reqs :
        EndedInExcept(r) =>
            /\ Failed(r)
            /\ ~Succeeded(r)
            /\ response[r].detail # <<>>
            /\ pending[r] = <<>>
            /\ Cardinality(RowsOf(r)) <= 1
            /\ exc[r] = <<"commit failed">> => RowsOf(r) = {}

C24_Witness ==
    \E r \in Reqs :
        /\ EndedInExcept(r)
        /\ exc[r] = <<"commit failed">>
        /\ response[r].detail = <<"Internal Server Error">>
        /\ RowsOf(r) = {}

\* C25: a chat request whose body carries a conversation_id is stored and
\* answered under that conversation_id; a new token is drawn only for a
\* body without one
C25_SuppliedTokenKept ==
    Succeeded(StageReq) =>
        IF stage.conversation_id # <<>>
        THEN /\ response[StageReq].conversation_id = stage.conversation_id[1]
             /\ \E i \in 1..Len(store) :
                   store[i].conversation_id = stage.conversation_id[1]
        ELSE \E i \in 1..Len(UuidNames) :
                response[StageReq].conversation_id = UuidNames[i]

\* C26: the client keeps no result between calls: whatever the call before
\* gave, a finished fetch made its own GET, returns the content of that GET's
\* reply when the reply has one, and returns what the local file holds now
\* when the GET failed and the file is readable
C26_NoCachedResult ==
    Finished =>
        /\ mcp.gets = 1
        /\ mcp.reply.kind = "content" => mcp.result = Ok(mcp.reply.content)
        /\ (mcp.reply.kind \in RemoteFailures /\ mcp.file.kind = "file") =>
              /\ mcp.reads = 1
              /\ mcp.result = Ok(mcp.file.content)

\* the same resource fetched twice, the second fetch giving another content
C26_Witness ==
    /\ Finished
    /\ mcp.prev.handle = mcp.handle
    /\ mcp.prev.result.ok
    /\ mcp.reply.kind = "content"
    /\ mcp.result.ok
    /\ mcp.result.val # mcp.prev.result.val

\* the line the claim gives for one turn
TurnLine(turn) ==
    IF turn.role = "user" THEN <<"User", ": ">> \o turn.content
    ELSE <<"Assistant", ": ">> \o turn.content

\* the history text the claim gives, built turn by turn from the oldest
RECURSIVE HistoryText(_)
HistoryText(history) ==
    IF Len(history) = 0 THEN <<"No previous conversation.">>
    ELSE IF Len(history) = 1 THEN TurnLine(history[1])
    ELSE HistoryText(SubSeq(history, 1, Len(history) - 1))
            \o <<"\n">> \o TurnLine(history[Len(history)])

HistoryTemplate == <<"conversation_history", "?", "user_query">>

\* C27: the text put in the place of {conversation_history} in the prompt of
\* the refinement is the placeholder for an empty history, and otherwise one
\* line per turn, oldest first, "User: ..." for the role user and
\* "Assistant: ..." for any other role, joined by newlines; it is never empty
C27_HistoryText ==
    (stage.query.called /\ stage.qfetch.ok /\ stage.qfetch.val = HistoryTemplate) =>
        /\ stage.query.sent =
              <<HistoryText(stage.history) \o <<"?">> \o stage.user_query>>
        /\ HistoryText(stage.history) # <<>>
        /\ stage.history = <<>> =>
              stage.query.sent[1][1] = "No previous conversation."

\* a history of two turns, the first of a role other than user, was rendered
C27_Witness ==
    /\ stage.query.called
    /\ stage.qfetch.ok
    /\ stage.qfetch.val = HistoryTemplate
    /\ Len(stage.history) = 2
    /\ stage.history[1].role # "user"
    /\ stage.history[2].role = "user"
    /\ Len(stage.query.sent) = 1
    /\ stage.query.sent[1][1] = "Assistant"

\* a step leaves every record it finds as it is and adds at most one
StoreGrowsBy(old, new) ==
    /\ Len(old) <= Len(new)
    /\ Len(new) <= Len(old) + 1
    /\ SubSeq(new, 1, Len(old)) = old

\* C28: the store is append-only: no step changes a field of a record that
\* exists or removes it, a failed or rolled-back request included, and a chat
\* request that succeeded has created its record exactly once
C28_AppendOnly ==
    /\ [] (\A r \in Reqs : Succeeded(r) => Cardinality(RowsOf(r)) = 1)
    /\ [][StoreGrowsBy(store, store')]_vars

\* a request failed after its commit and was rolled back, next to a record
\* of the other request: both records are there
C28_Witness ==
    \E r \in Reqs :
        /\ Failed(r)
        /\ RowsOf(r) # {}
        /\ Len(store) = 2

\* the request followed call by call has arrived: its first call is under
\* way, or it is past it
Arrived == pc[StageReq] # "idle" \/ mcp.pc # "idle"

\* C29: when every call a chat request waits for returns or raises, the
\* request reaches a terminal outcome, Complete (a success response) or
\* Failed (an error), and exactly one: it has no response before, and once
\* it has one neither its state nor its response changes; it does not stay
\* in Refining, Answering or Persisting forever
C29_ReachesOneOutcome ==
    /\ Arrived ~> (pc[StageReq] = "done")
    /\ [] (pc[StageReq] = "done" => (Succeeded(StageReq) \/ Failed(StageReq)))
    /\ [] (pc[StageReq] # "done" => response[StageReq] = NoResponse)
    /\ [][pc[StageReq] = "done" =>
            /\ pc'[StageReq] = "done"
            /\ response'[StageReq] = response[StageReq]]_vars

\* the request is Complete after a fetch that fell back to the local file
C29_Witness ==
    /\ pc[StageReq] = "done"
    /\ Succeeded(StageReq)
    /\ calls.reads["faq"] = 1

\* C30: a chat request that has answered has a record in the store if and
\* only if it answered success: a request that reports failure, at whatever
\* point of its persisting, leaves no record behind
C30_RecordIffSuccess ==
    \A r \in Reqs :
        pc[r] = "done" => (RowsOf(r) # {} <=> Succeeded(r))

\* the last answer is a listing from the first row on with a limit that no
\* store content exceeds
ListedAll ==
    /\ reader.endpoint = "/messages"
    /\ reader.status = 200
    /\ reader.offset = 0
    /\ reader.limit >= Len(store)

Counted200 == reader.endpoint = "/messages/count" /\ reader.status = 200

\* C31: count and list agree on filtering: for every conversation_id argument
\* (absent, the empty string, any other string) and every store content,
\* count(c) is the number of records list(c) returns with offset 0 and a
\* limit of at least the store size: such a listing has as many records as
\* the count of its argument gives on the same store, and a count is the
\* length of every such listing of its argument
C31_CountAgreesWithList ==
    /\ ListedAll =>
          Len(reader.messages) = SelectCount(store, reader.conversation_id)
    /\ Counted200 =>
          \A limit \in {l \in Limits : l >= Len(store)} :
             \A messages \in SelectMessages(store, limit, 0,
                                            reader.conversation_id) :
                 Len(messages) = reader.count

\* a full store listed with the empty string as conversation_id: every
\* record is returned
C31_Witness ==
    /\ ListedAll
    /\ reader.conversation_id = <<"">>
    /\ reader.limit = DefaultLimit
    /\ Len(store) = MaxStore
    /\ Len(reader.messages) = MaxStore

====
